---- MODULE Spec2Model ----
(***************************************************************************)
(* Repository provisioning: the interactive script ghec-ghc-migration.py   *)
(* and the web handler repo-creator-web/app.py, as one state machine.      *)
(* Text is a sequence of one-character strings, so that split(",") and     *)
(* strip() are computed as Python computes them.  Fixed template text is   *)
(* a sequence holding one token.                                           *)
(***************************************************************************)
EXTENDS Integers, Sequences, FiniteSets, TLC

VARIABLES flow, status, pc, i, input, v, flags, calls, repo, auditLog

vars == <<flow, status, pc, i, input, v, flags, calls, repo, auditLog>>

\* ------------------------------------------------------------------ bounds
MaxLen == 2          \* longest free-text input, in characters
MaxLabels == 2       \* most label lines typed at the script's label prompt
MaxEnabled == 2      \* most optional features switched on in one run

Alphabet == {"a", " ", ",", ":"}

Raw == UNION {[1..k -> Alphabet] : k \in 0..MaxLen}

\* what gets typed at the label prompt: well formed, padded, no colon, two colons, blank
Lines == {<<"a", ":", "a">>, <<" ", "b", " ", ":", " ", "c", " ">>, <<"a">>,
          <<"a", ":", "b", ":", "c">>, <<" ">>}

LabelLines == UNION {[1..k -> Lines] : k \in 0..MaxLabels}

Categories == {"sox", "banking", "normal"}

Regions == {"china", "north-america"}

Absent == [exists |-> FALSE]

\* ------------------------------------------------------- Python str helpers
RECURSIVE IndexOf(_, _, _)
IndexOf(s, ch, k) ==
    IF k > Len(s) THEN 0
    ELSE IF s[k] = ch THEN k
    ELSE IndexOf(s, ch, k + 1)

Contains(s, ch) == IndexOf(s, ch, 1) # 0

RECURSIVE Split(_, _)
Split(s, sep) ==
    LET k == IndexOf(s, sep, 1) IN
    IF k = 0 THEN <<s>>
    ELSE <<SubSeq(s, 1, k - 1)>> \o Split(SubSeq(s, k + 1, Len(s)), sep)

RECURSIVE Strip(_)
Strip(s) ==
    IF s = <<>> THEN s
    ELSE IF Head(s) = " " THEN Strip(Tail(s))
    ELSE IF s[Len(s)] = " " THEN Strip(SubSeq(s, 1, Len(s) - 1))
    ELSE s

RECURSIVE Join(_, _)
Join(parts, sep) ==
    IF parts = <<>> THEN <<>>
    ELSE IF Len(parts) = 1 THEN parts[1]
    ELSE parts[1] \o sep \o Join(Tail(parts), sep)

RECURSIVE StripAll(_)
StripAll(items) ==
    IF items = <<>> THEN <<>>
    ELSE <<Strip(Head(items))>> \o StripAll(Tail(items))

\* [x.strip() for x in items if x.strip()]
NonBlank(items) == SelectSeq(StripAll(items), LAMBDA x : x # <<>>)

Range(s) == {s[k] : k \in 1..Len(s)}

\* ------------------------------------------------------------ label parsing
\* name, color = label.split(":") raises ValueError unless there are two parts
Unpacks(item) == Len(Split(item, ":")) = 2

LabelEntry(item) ==
    LET parts == Split(item, ":") IN
    [name |-> Strip(parts[1]), color |-> Strip(parts[2])]

\* app.py: the loop over request.form['labels'].split(',')
RECURSIVE WebLabels(_)
WebLabels(items) ==
    IF items = <<>> THEN <<>>
    ELSE IF Contains(Head(items), ":")
         THEN <<LabelEntry(Head(items))>> \o WebLabels(Tail(items))
         ELSE WebLabels(Tail(items))

WebLabelsRaise(items) ==
    \E k \in 1..Len(items) : Contains(items[k], ":") /\ ~Unpacks(items[k])

\* ------------------------------------------------------------------- input
UpfrontFlags == {"add_cloudbuild", "add_cloudbuild_yaml", "add_codeowners_file",
                 "add_license", "add_readme"}

Base == [REPO_NAME |-> <<"r">>, DESCRIPTION |-> <<>>, TOPICS |-> <<"a">>,
         DEFAULT_BRANCH |-> <<>>, TEAM_SLUGS |-> <<"a">>, labels |-> <<>>,
         category |-> "normal", region |-> "china", codeowners |-> <<"a">>]

OwnerRequests ==
    {[Base EXCEPT !.codeowners = s, !.category = c] : s \in Raw, c \in Categories}

OtherRequests ==
    {[Base EXCEPT !.TEAM_SLUGS = s] : s \in Raw}
    \cup {[Base EXCEPT !.TOPICS = s] : s \in Raw}
    \cup {[Base EXCEPT !.labels = ls] : ls \in LabelLines}
    \cup {[Base EXCEPT !.DESCRIPTION = d, !.DEFAULT_BRANCH = b, !.region = r] :
             d \in {<<>>, <<"a">>}, b \in {<<>>, <<"a">>}, r \in Regions}

FlagChoices == {y \in SUBSET UpfrontFlags : Cardinality(y) <= MaxEnabled}

ScriptInputs ==
    {[req |-> r, yes |-> y] : r \in OwnerRequests, y \in FlagChoices}
    \cup {[req |-> r, yes |-> y] : r \in OtherRequests, y \in SUBSET {"add_cloudbuild"}}

WebRequests ==
    {[Base EXCEPT !.codeowners = s, !.category = c, !.TEAM_SLUGS = t] :
        s \in Raw, t \in {<<>>, <<"a">>}, c \in Categories}
    \cup {[Base EXCEPT !.TEAM_SLUGS = s, !.labels = l] :
             s \in Raw, l \in {<<>>, <<"a", ":", "a">>}}
    \cup {[Base EXCEPT !.labels = l] : l \in Raw}
    \cup {[Base EXCEPT !.labels = Join(ls, <<",">>)] : ls \in LabelLines}

WebInputs == {[req |-> r, yes |-> y] : r \in WebRequests, y \in SUBSET {"add_cloudbuild"}}

NoVars == [TOPICS |-> <<>>, DEFAULT_BRANCH |-> <<>>, TEAM_SLUGS |-> <<>>,
           LABELS |-> <<>>, category |-> "", region |-> "", codeowners |-> <<>>]

Init ==
    /\ flow \in {"script", "web"}
    /\ input \in (IF flow = "script" THEN ScriptInputs ELSE WebInputs)
    /\ status = "running"
    /\ pc = IF flow = "script" THEN "read" ELSE "form"
    /\ i = 1
    /\ v = NoVars
    /\ flags = {}
    /\ calls = <<>>
    /\ repo = Absent
    /\ auditLog = <<>>

\* -------------------------------------------------------------- call trace
\* One entry per call a run attempts, in order; ok = FALSE is a call that raised.
Call(op, a, b, c, n, ok) == [op |-> op, a |-> a, b |-> b, c |-> c, n |-> n, ok |-> ok]

Did(op, a, b, c, n) == Call(op, a, b, c, n, TRUE)

Threw(op, a, b, c, n) == Call(op, a, b, c, n, FALSE)

\* ------------------------------------------------------------ step ordering
\* the sections in the order the specification lists its steps
ScriptOrder_AsSpecified ==
               <<"auth", "create", "topics", "labels", "hook", "collab", "protect", "protect2",
                 "f_cloudbuild", "f_codeowners", "f_license", "f_readme",
                 "f_issue", "f_pr", "f_security", "f_contributing", "f_tekton",
                 "gcp", "vault", "notify", "audit", "end">>

\* the audit line written before the repository is created
ScriptOrder_AuditFirst ==
               <<"auth", "audit", "create", "topics", "labels", "hook", "collab", "protect",
                 "f_cloudbuild", "f_codeowners", "f_license", "f_readme",
                 "f_issue", "f_pr", "f_security", "f_contributing",
                 "notify", "protect2", "f_tekton", "gcp", "vault", "end">>

ScriptOrder == <<"auth", "create", "topics", "labels", "hook", "collab", "protect",
                 "f_cloudbuild", "f_codeowners", "f_license", "f_readme",
                 "f_issue", "f_pr", "f_security", "f_contributing",
                 "notify", "audit", "protect2", "f_tekton", "gcp", "vault", "end">>

\* the webhook registered before the labels
WebOrder_HookFirst == <<"auth", "create", "hook", "labels", "collab", "protect", "end">>

WebOrder == <<"auth", "create", "labels", "hook", "collab", "protect", "end">>

Order == IF flow = "script" THEN ScriptOrder ELSE WebOrder

Pos(p) == CHOOSE k \in 1..Len(Order) : Order[k] = p

After(p) == Order[Pos(p) + 1]

\* falling through to the next section of the script / statement of the function
Proceed(p) == [pc |-> After(p), status |-> IF After(p) = "end" THEN "done" ELSE "running"]

\* the exception swallowed, the run going on
Raised_Swallowed(p) == Proceed(p)

\* an exception nobody catches: the script dies; index() flashes the error
Raised(p) == [pc |-> p, status |-> "aborted"]

\* an exception caught by the try/except around an optional integration
Caught(p) == Proceed(p)

Goto(t) == /\ pc' = t.pc
           /\ status' = t.status

Running(p) == status = "running" /\ pc = p

\* ------------------------------------------------------------ remote state
NoProtection == [set |-> FALSE, count |-> 0, enforce_admins |-> FALSE,
                 dismiss_stale_reviews |-> FALSE, require_code_owner_reviews |-> FALSE,
                 contexts |-> {}]

NewRepo == [exists |-> TRUE, topics |-> <<>>, labels |-> <<>>, hooks |-> 0,
            collaborators |-> {}, teams |-> {}, protection |-> NoProtection,
            files |-> {}]

\* the early protection without the code-owner review requirement
EarlyProtection_NoOwnerReview ==
                   [set |-> TRUE, count |-> 1, enforce_admins |-> TRUE,
                    dismiss_stale_reviews |-> TRUE, require_code_owner_reviews |-> FALSE,
                    contexts |-> {}]

EarlyProtection == [set |-> TRUE, count |-> 1, enforce_admins |-> TRUE,
                    dismiss_stale_reviews |-> TRUE, require_code_owner_reviews |-> TRUE,
                    contexts |-> {}]

AdvancedProtection == [set |-> TRUE, count |-> 2, enforce_admins |-> TRUE,
                       dismiss_stale_reviews |-> TRUE, require_code_owner_reviews |-> TRUE,
                       contexts |-> {"ci/test", "lint"}]

SetTeam(teams, slug, perm) == {t \in teams : t[1] # slug} \cup {<<slug, perm>>}

\* ------------------------------------------------------------ reading input
\* script lines 12-18.  The category arrives as one of the three lower-case words, which
\* strip().lower() at line 31 leaves as they are.
ReadInputs ==
    /\ Running("read")
    /\ v' = [v EXCEPT !.TOPICS = Split(input.req.TOPICS, ","),
                      !.DEFAULT_BRANCH = IF input.req.DEFAULT_BRANCH = <<>>
                                         THEN <<"main">> ELSE input.req.DEFAULT_BRANCH,
                      !.TEAM_SLUGS = Split(input.req.TEAM_SLUGS, ",")]
    /\ pc' = "label_prompt"
    /\ i' = 1
    /\ UNCHANGED <<flow, status, input, flags, calls, repo, auditLog>>

\* script lines 20-28, one pass of the while loop
PromptLabel ==
    /\ Running("label_prompt")
    /\ LET label == IF i <= Len(input.req.labels) THEN input.req.labels[i] ELSE <<>> IN
       IF label = <<>>
       THEN /\ pc' = "read_flags"
            /\ i' = 1
            /\ v' = v
       ELSE /\ pc' = pc
            /\ i' = i + 1
            /\ v' = IF Unpacks(label)
                    THEN [v EXCEPT !.LABELS = Append(@, LabelEntry(label))]
                    ELSE v
    /\ UNCHANGED <<flow, status, input, flags, calls, repo, auditLog>>

\* script lines 29-36
ReadFlags ==
    /\ Running("read_flags")
    /\ flags' = input.yes
    /\ v' = [v EXCEPT !.category = input.req.category,
                      !.region = input.req.region,
                      !.codeowners = Split(input.req.codeowners, ",")]
    /\ pc' = "auth"
    /\ UNCHANGED <<flow, status, i, input, calls, repo, auditLog>>

\* app.py index(), lines 50-62: everything before the try
ParseForm ==
    /\ Running("form")
    /\ LET items == Split(input.req.labels, ",") IN
       IF WebLabelsRaise(items)
       THEN /\ status' = "crashed"
            /\ pc' = pc
            /\ v' = [v EXCEPT !.TEAM_SLUGS = Split(input.req.TEAM_SLUGS, ",")]
            /\ flags' = flags
       ELSE /\ status' = status
            /\ pc' = "auth"
            /\ v' = [v EXCEPT !.TEAM_SLUGS = Split(input.req.TEAM_SLUGS, ","),
                              !.LABELS = WebLabels(items),
                              !.DEFAULT_BRANCH = <<"main">>,
                              !.category = input.req.category,
                              !.region = input.req.region,
                              !.codeowners = IF input.req.codeowners # <<>>
                                             THEN Split(input.req.codeowners, ",")
                                             ELSE <<>>]
            /\ flags' = input.yes
    /\ UNCHANGED <<flow, i, input, calls, repo, auditLog>>

\* ------------------------------------------------------------- the pipeline
\* g.get_organization(ORG_NAME)
Authenticate ==
    /\ Running("auth")
    /\ \/ /\ calls' = Append(calls, Did("get_organization", <<>>, <<>>, <<>>, 0))
          /\ Goto(Proceed(pc))
       \/ /\ calls' = Append(calls, Threw("get_organization", <<>>, <<>>, <<>>, 0))
          /\ Goto(Raised(pc))
    /\ UNCHANGED <<flow, i, input, v, flags, repo, auditLog>>

\* org.create_repo(...): the platform refuses a name that is already taken
CreateRepo ==
    /\ Running("create")
    /\ \/ /\ repo = Absent
          /\ repo' = NewRepo
          /\ calls' = Append(calls, Did("create_repo", input.req.REPO_NAME, <<>>, v.DEFAULT_BRANCH, 0))
          /\ Goto(Proceed(pc))
       \/ /\ repo' = repo
          /\ calls' = Append(calls, Threw("create_repo", input.req.REPO_NAME, <<>>, v.DEFAULT_BRANCH, 0))
          /\ Goto(Raised(pc))
    /\ i' = 1
    /\ UNCHANGED <<flow, input, v, flags, auditLog>>

\* script lines 54-56
SetTopics ==
    /\ Running("topics")
    /\ IF v.TOPICS # <<>> /\ NonBlank(v.TOPICS) # <<>>
       THEN \/ /\ repo' = [repo EXCEPT !.topics = NonBlank(v.TOPICS)]
               /\ calls' = Append(calls, Did("replace_topics", Join(NonBlank(v.TOPICS), <<",">>), <<>>, <<>>, 0))
               /\ Goto(Proceed(pc))
            \/ /\ repo' = repo
               /\ calls' = Append(calls, Threw("replace_topics", Join(NonBlank(v.TOPICS), <<",">>), <<>>, <<>>, 0))
               /\ Goto(Raised(pc))
       ELSE /\ repo' = repo
            /\ calls' = calls
            /\ Goto(Proceed(pc))
    /\ i' = 1
    /\ UNCHANGED <<flow, input, v, flags, auditLog>>

\* one pass of "for label in LABELS", or leaving the loop
AddLabel ==
    /\ Running("labels")
    /\ IF i <= Len(v.LABELS)
       THEN LET l == v.LABELS[i] IN
            \/ /\ repo' = [repo EXCEPT !.labels = Append(@, l)]
               /\ calls' = Append(calls, Did("create_label", l.name, l.color, <<>>, 0))
               /\ i' = i + 1
               /\ UNCHANGED <<pc, status>>
            \/ /\ repo' = repo
               /\ calls' = Append(calls, Threw("create_label", l.name, l.color, <<>>, 0))
               /\ i' = i
               /\ Goto(Raised(pc))
       ELSE /\ repo' = repo
            /\ calls' = calls
            /\ i' = 1
            /\ Goto(Proceed(pc))
    /\ UNCHANGED <<flow, input, v, flags, auditLog>>

\* script lines 64-74, app.py lines 19-28
AddWebhook ==
    /\ Running("hook")
    /\ IF "add_cloudbuild" \in flags
       THEN \/ /\ repo' = [repo EXCEPT !.hooks = @ + 1]
               /\ calls' = Append(calls, Did("create_hook", <<"https://cloudbuild.googleapis.com/github/webhook">>, <<>>, <<>>, 0))
               /\ Goto(Proceed(pc))
            \/ /\ repo' = repo
               /\ calls' = Append(calls, Threw("create_hook", <<"https://cloudbuild.googleapis.com/github/webhook">>, <<>>, <<>>, 0))
               /\ Goto(Raised(pc))
       ELSE /\ repo' = repo
            /\ calls' = calls
            /\ Goto(Proceed(pc))
    /\ i' = 1
    /\ UNCHANGED <<flow, input, v, flags, auditLog>>

\* the first k calls of cs return, the next one (if any) raises
Attempted(cs, k) ==
    [j \in 1..(IF k < Len(cs) THEN k + 1 ELSE Len(cs)) |->
        [cs[j] EXCEPT !.ok = (j <= k)]]

OwnersOnly(category) == category \in {"sox", "banking"}

\* script lines 77-89, app.py lines 29-37: one pass of the loop the category selects
AddCollaborators ==
    /\ Running("collab")
    /\ IF OwnersOnly(v.category)
       THEN IF i <= Len(v.codeowners)
            THEN LET owner == Strip(v.codeowners[i])
                     cs == <<Did("get_user", owner, <<>>, <<>>, 0),
                             Did("add_to_collaborators", owner, <<"admin">>, <<>>, 0)>> IN
                 \E k \in 0..2 :
                    /\ calls' = calls \o Attempted(cs, k)
                    /\ IF k = 2
                       THEN /\ repo' = [repo EXCEPT !.collaborators = @ \cup {<<owner, <<"admin">>>>}]
                            /\ i' = i + 1
                            /\ UNCHANGED <<pc, status>>
                       ELSE /\ repo' = repo
                            /\ i' = i
                            /\ Goto(Raised(pc))
            ELSE /\ UNCHANGED <<repo, calls>>
                 /\ i' = 1
                 /\ Goto(Proceed(pc))
       ELSE IF i <= Len(v.TEAM_SLUGS)
            THEN LET slug == Strip(v.TEAM_SLUGS[i])
                     cs == <<Did("get_team_by_slug", slug, <<>>, <<>>, 0),
                             Did("add_to_repos", slug, <<>>, <<>>, 0),
                             Did("set_repo_permission", slug, <<"push">>, <<>>, 0)>> IN
                 \E k \in 0..3 :
                    /\ calls' = calls \o Attempted(cs, k)
                    /\ repo' = IF k = 3 THEN [repo EXCEPT !.teams = SetTeam(@, slug, <<"push">>)]
                               ELSE IF k = 2 THEN [repo EXCEPT !.teams = SetTeam(@, slug, <<"pull">>)]
                               ELSE repo
                    /\ IF k = 3
                       THEN /\ i' = i + 1
                            /\ UNCHANGED <<pc, status>>
                       ELSE /\ i' = i
                            /\ Goto(Raised(pc))
            ELSE /\ UNCHANGED <<repo, calls>>
                 /\ i' = 1
                 /\ Goto(Proceed(pc))
    /\ UNCHANGED <<flow, input, v, flags, auditLog>>

\* script lines 94-101, app.py lines 38-45
ProtectBranch ==
    /\ Running("protect")
    /\ LET cs == <<Did("get_branch", v.DEFAULT_BRANCH, <<>>, <<>>, 0),
                   Did("edit_protection", v.DEFAULT_BRANCH, <<>>, <<>>, EarlyProtection.count)>> IN
       \E k \in 0..2 :
          /\ calls' = calls \o Attempted(cs, k)
          /\ IF k = 2
             THEN /\ repo' = [repo EXCEPT !.protection = EarlyProtection]
                  /\ Goto(Proceed(pc))
             ELSE /\ repo' = repo
                  /\ Goto(Raised(pc))
    /\ UNCHANGED <<flow, i, input, v, flags, auditLog>>

\* ------------------------------------------------------- boilerplate files
FileSteps == {"f_cloudbuild", "f_codeowners", "f_license", "f_readme", "f_issue",
              "f_pr", "f_security", "f_contributing", "f_tekton"}

\* the four files whose flag is read with the other inputs, lines 30-36
PlannedFiles == {"f_cloudbuild", "f_codeowners", "f_license", "f_readme"}

FileFlag(p) ==
    CASE p = "f_cloudbuild"   -> "add_cloudbuild_yaml"
      [] p = "f_codeowners"   -> "add_codeowners_file"
      [] p = "f_license"      -> "add_license"
      [] p = "f_readme"       -> "add_readme"
      [] p = "f_issue"        -> "add_issue_template"
      [] p = "f_pr"           -> "add_pr_template"
      [] p = "f_security"     -> "add_security_md"
      [] p = "f_contributing" -> "add_contributing_md"
      [] p = "f_tekton"       -> "add_tekton"

FilePath(p) ==
    CASE p = "f_cloudbuild"   -> <<"cloudbuild.yaml">>
      [] p = "f_codeowners"   -> <<".github/CODEOWNERS">>
      [] p = "f_license"      -> <<"LICENSE">>
      [] p = "f_readme"       -> <<"README.md">>
      [] p = "f_issue"        -> <<".github/ISSUE_TEMPLATE/bug_report.md">>
      [] p = "f_pr"           -> <<".github/PULL_REQUEST_TEMPLATE.md">>
      [] p = "f_security"     -> <<".github/SECURITY.md">>
      [] p = "f_contributing" -> <<".github/CONTRIBUTING.md">>
      [] p = "f_tekton"       -> <<"tekton.yaml">>

RECURSIVE AtAll(_)
AtAll(owners) ==
    IF owners = <<>> THEN <<>>
    ELSE <<<<"@">> \o Head(owners)>> \o AtAll(Tail(owners))

\* line 121
CodeownersContent(owners) == <<"*", " ">> \o Join(AtAll(NonBlank(owners)), <<" ">>)

\* line 151
ReadmeContent ==
    <<"# ">> \o input.req.REPO_NAME \o <<"\n\n">> \o input.req.DESCRIPTION
      \o <<"\n\n## Region\n", v.region, "\n\n## Category\n", v.category, "\n">>

FileContent(p) ==
    CASE p = "f_cloudbuild"   -> <<"steps: ... images: ...">>
      [] p = "f_codeowners"   -> CodeownersContent(v.codeowners)
      [] p = "f_license"      -> <<"MIT License ...">>
      [] p = "f_readme"       -> ReadmeContent
      [] p = "f_issue"        -> <<"--- name: Bug report ...">>
      [] p = "f_pr"           -> <<"# Pull Request ...">>
      [] p = "f_security"     -> <<"# Security Policy ...">>
      [] p = "f_contributing" -> <<"# Contributing ...">>
      [] p = "f_tekton"       -> <<"apiVersion: tekton.dev/v1beta1 ...">>

\* the CODEOWNERS section skipped when no owner is named
CodeownersWanted_Named(fl, owners) == "add_codeowners_file" \in fl /\ NonBlank(owners) # <<>>

\* line 120: "if add_codeowners_file and codeowners"
CodeownersWanted(fl, owners) == "add_codeowners_file" \in fl /\ owners # <<>>

FileWanted(p, fl) ==
    IF p = "f_codeowners" THEN CodeownersWanted(fl, v.codeowners) ELSE FileFlag(p) \in fl

\* repo.create_file(path, message, content, branch) when the section's condition holds
CommitIfWanted(p, fl) ==
    IF FileWanted(p, fl)
    THEN LET f == [path |-> FilePath(p), content |-> FileContent(p), branch |-> v.DEFAULT_BRANCH] IN
         \/ /\ repo' = [repo EXCEPT !.files = @ \cup {f}]
            /\ calls' = Append(calls, Did("create_file", f.path, f.content, f.branch, 0))
            /\ Goto(Proceed(p))
         \/ /\ repo' = repo
            /\ calls' = Append(calls, Threw("create_file", f.path, f.content, f.branch, 0))
            /\ Goto(Raised(p))
    ELSE /\ UNCHANGED <<repo, calls>>
         /\ Goto(Proceed(p))

\* a y/n prompt answered now; at most MaxEnabled answers are "y" in one run
Answer(flag, a) ==
    /\ a => Cardinality(flags) < MaxEnabled
    /\ flags' = IF a THEN flags \cup {flag} ELSE flags

\* script lines 105-162
CommitPlannedFile ==
    /\ status = "running"
    /\ pc \in PlannedFiles
    /\ flags' = flags
    /\ CommitIfWanted(pc, flags)
    /\ UNCHANGED <<flow, i, input, v, auditLog>>

\* script lines 165-247 and 272-290: the flag is asked for right before its section
AskAndCommitFile ==
    /\ status = "running"
    /\ pc \in FileSteps \ PlannedFiles
    /\ \E a \in BOOLEAN :
          /\ Answer(FileFlag(pc), a)
          /\ CommitIfWanted(pc, flags')
    /\ UNCHANGED <<flow, i, input, v, auditLog>>

\* ------------------------------------------------ notification and audit log
\* script lines 250-253: requests.post is not inside a try
Notify ==
    /\ Running("notify")
    /\ \E slack_webhook \in BOOLEAN :
          /\ Answer("slack_webhook", slack_webhook)
          /\ IF slack_webhook
             THEN \/ /\ calls' = Append(calls, Did("post", input.req.REPO_NAME, <<>>, <<>>, 0))
                     /\ Goto(Proceed(pc))
                  \/ /\ calls' = Append(calls, Threw("post", input.req.REPO_NAME, <<>>, <<>>, 0))
                     /\ Goto(Raised(pc))
             ELSE /\ calls' = calls
                  /\ Goto(Proceed(pc))
    /\ UNCHANGED <<flow, i, input, v, repo, auditLog>>

\* line 258, without the timestamp
AuditLine == [repo |-> input.req.REPO_NAME, category |-> v.category,
              region |-> v.region, codeowners |-> v.codeowners]

\* script lines 256-258
WriteAudit ==
    /\ Running("audit")
    /\ auditLog' = Append(auditLog, AuditLine)
    /\ calls' = Append(calls, Did("audit_write", input.req.REPO_NAME, <<>>, <<>>, 0))
    /\ Goto(Proceed(pc))
    /\ UNCHANGED <<flow, i, input, v, flags, repo>>

\* script lines 261-269, on the branch object fetched at line 94
ProtectBranchAdvanced ==
    /\ Running("protect2")
    /\ \/ /\ repo' = [repo EXCEPT !.protection = AdvancedProtection]
          /\ calls' = Append(calls, Did("edit_protection", v.DEFAULT_BRANCH, <<>>, <<>>, AdvancedProtection.count))
          /\ Goto(Proceed(pc))
       \/ /\ repo' = repo
          /\ calls' = Append(calls, Threw("edit_protection", v.DEFAULT_BRANCH, <<>>, <<>>, AdvancedProtection.count))
          /\ Goto(Raised(pc))
    /\ UNCHANGED <<flow, i, input, v, flags, auditLog>>

\* ------------------------------------------------------------ secret stores
\* script lines 293-317: every error inside the try is printed and dropped
GcpSecret ==
    /\ Running("gcp")
    /\ \E add_gcp_secret \in BOOLEAN :
          /\ Answer("add_gcp_secret", add_gcp_secret)
          /\ IF add_gcp_secret
             THEN LET cs == <<Did("create_secret", <<>>, <<>>, <<>>, 0),
                              Did("add_secret_version", <<>>, <<>>, <<>>, 0)>> IN
                  \E k \in 0..2 :
                     /\ calls' = calls \o Attempted(cs, k)
                     /\ Goto(IF k = 2 THEN Proceed(pc) ELSE Caught(pc))
             ELSE /\ calls' = calls
                  /\ Goto(Proceed(pc))
    /\ UNCHANGED <<flow, i, input, v, repo, auditLog>>

\* script lines 320-338, ending with the "fully configured" line
VaultSecret ==
    /\ Running("vault")
    /\ \E add_vault_secret \in BOOLEAN :
          /\ Answer("add_vault_secret", add_vault_secret)
          /\ IF add_vault_secret
             THEN \/ /\ calls' = Append(calls, Did("create_or_update_secret", <<>>, <<>>, <<>>, 0))
                     /\ Goto(Proceed(pc))
                  \/ /\ calls' = Append(calls, Threw("create_or_update_secret", <<>>, <<>>, <<>>, 0))
                     /\ Goto(Caught(pc))
             ELSE /\ calls' = calls
                  /\ Goto(Proceed(pc))
    /\ UNCHANGED <<flow, i, input, v, repo, auditLog>>

\* ------------------------------------------------------------- re-invoking
\* The operator runs the script again, or posts the form again, with the same
\* request.  The platform and the audit log file outlive the process.
Reinvoke ==
    /\ status \in {"done", "aborted", "crashed"}
    /\ status' = "running"
    /\ pc' = IF flow = "script" THEN "read" ELSE "form"
    /\ i' = 1
    /\ v' = NoVars
    /\ flags' = {}
    /\ calls' = <<>>
    /\ UNCHANGED <<flow, input, repo, auditLog>>

Next ==
    \/ ReadInputs
    \/ PromptLabel
    \/ ReadFlags
    \/ ParseForm
    \/ Authenticate
    \/ CreateRepo
    \/ SetTopics
    \/ AddLabel
    \/ AddWebhook
    \/ AddCollaborators
    \/ ProtectBranch
    \/ CommitPlannedFile
    \/ AskAndCommitFile
    \/ Notify
    \/ WriteAudit
    \/ ProtectBranchAdvanced
    \/ GcpSecret
    \/ VaultSecret
    \/ Reinvoke

Spec == Init /\ [][Next]_vars

\* ===================================================================== claims
Ops(S) == SelectSeq(calls, LAMBDA c : c.op \in S)

NoThrow == \A k \in 1..Len(calls) : calls[k].ok

\* step p of the current run has run to its end without raising
Reached(p) ==
    /\ pc \in Range(Order)
    /\ p \in Range(Order)
    /\ Pos(pc) > Pos(p)

\* the names a comma-separated answer supplies: blank items name nobody (as line 121 reads them)
Supplied(raw) == Range(NonBlank(Split(raw, ",")))

TeamOps == {"get_team_by_slug", "add_to_repos", "set_repo_permission"}

\* C1: with category sox or banking, once the collaborator step is through, the users
\* passed to add_to_collaborators are exactly the supplied code owners (none for an
\* empty answer), each with permission admin, and no team call was made.
C1_OwnersExactly ==
    (OwnersOnly(v.category) /\ Reached("collab")) =>
        /\ {c.a : c \in Range(Ops({"add_to_collaborators"}))} = Supplied(input.req.codeowners)
        /\ \A c \in Range(Ops({"add_to_collaborators"})) : c.b = <<"admin">>
        /\ Ops(TeamOps) = <<>>

\* C2: with category normal, once the collaborator step is through, the teams added
\* are exactly the supplied teams (none for an empty answer), each with push, and no
\* user was added through add_to_collaborators.
C2_TeamsExactly ==
    (v.category = "normal" /\ Reached("collab")) =>
        /\ {c.a : c \in Range(Ops({"add_to_repos"}))} = Supplied(input.req.TEAM_SLUGS)
        /\ repo.teams = {<<t, <<"push">>>> : t \in Supplied(input.req.TEAM_SLUGS)}
        /\ Ops({"add_to_collaborators"}) = <<>>

\* the step of section 4.1 of the specification a call belongs to
SpecStep(c) ==
    CASE c.op = "get_organization" -> 0
      [] c.op = "create_repo" -> 1
      [] c.op = "replace_topics" -> 2
      [] c.op = "create_label" -> 3
      [] c.op = "create_hook" -> 4
      [] c.op \in TeamOps \cup {"get_user", "add_to_collaborators"} -> 5
      [] c.op \in {"get_branch", "edit_protection"} -> 6
      [] c.op = "create_file" -> 7
      [] c.op \in {"create_secret", "add_secret_version", "create_or_update_secret"} -> 8
      [] c.op = "post" -> 9
      [] c.op = "audit_write" -> 10

\* the same steps in the order the script's sections stand in
CodeStep(c) ==
    CASE c.op = "get_organization" -> 0
      [] c.op = "create_repo" -> 1
      [] c.op = "replace_topics" -> 2
      [] c.op = "create_label" -> 3
      [] c.op = "create_hook" -> 4
      [] c.op \in TeamOps \cup {"get_user", "add_to_collaborators"} -> 5
      [] c.op = "get_branch" -> 6
      [] c.op = "edit_protection" /\ c.n = 1 -> 6
      [] c.op = "create_file" /\ c.a # <<"tekton.yaml">> -> 7
      [] c.op = "post" -> 8
      [] c.op = "audit_write" -> 9
      [] c.op = "edit_protection" /\ c.n # 1 -> 10
      [] c.op = "create_file" /\ c.a = <<"tekton.yaml">> -> 11
      [] c.op \in {"create_secret", "add_secret_version"} -> 12
      [] c.op = "create_or_update_secret" -> 13

\* C3 as stated: a script run without a failing call attempts its calls in the order
\* of steps 1..10; nothing of steps 6, 7, 8 follows the notification or the audit line.
C3_SpecOrder ==
    (flow = "script" /\ NoThrow) =>
        \A j, k \in 1..Len(calls) : j < k => SpecStep(calls[j]) <= SpecStep(calls[k])

\* C3 amended: a script run without a failing call attempts its calls in the order
\* creation, topics, labels, webhook, collaborators, protection with 1 review, the
\* boilerplate files other than Tekton, notification, audit line, protection with
\* 2 reviews, the Tekton file, the GCP secret, the Vault secret.
C3_CodeOrder ==
    (flow = "script" /\ NoThrow) =>
        \A j, k \in 1..Len(calls) : j < k => CodeStep(calls[j]) <= CodeStep(calls[k])

C3_Witness ==
    /\ flow = "script"
    /\ status = "done"
    /\ NoThrow
    /\ {"slack_webhook", "add_tekton"} \subseteq flags

\* ------------------------------------------------------------------------ C4
ChangingOps == {"create_repo", "create_label", "create_hook", "add_to_repos",
                "set_repo_permission", "add_to_collaborators", "edit_protection"}

RECURSIVE UpToProtection(_)
UpToProtection(cs) ==
    IF cs = <<>> THEN <<>>
    ELSE IF Head(cs).op = "edit_protection" THEN <<Head(cs)>>
    ELSE <<Head(cs)>> \o UpToProtection(Tail(cs))

RECURSIVE LabelCalls(_)
LabelCalls(ls) ==
    IF ls = <<>> THEN <<>>
    ELSE <<Did("create_label", Head(ls).name, Head(ls).color, <<>>, 0)>> \o LabelCalls(Tail(ls))

RECURSIVE TeamCalls(_)
TeamCalls(ts) ==
    IF ts = <<>> THEN <<>>
    ELSE <<Did("add_to_repos", Strip(Head(ts)), <<>>, <<>>, 0),
           Did("set_repo_permission", Strip(Head(ts)), <<"push">>, <<>>, 0)>> \o TeamCalls(Tail(ts))

\* C4: category normal, webhook flag set, no failing call: up to the first branch
\* protection the changing calls are, in this order, one repository creation, one
\* create_label per requested label in the given order, one webhook, each team in
\* the list added and given push, and the protection of the default branch with 1
\* required review.
C4_EndToEndOrder ==
    (v.category = "normal" /\ "add_cloudbuild" \in flags /\ NoThrow /\ Reached("protect")) =>
        UpToProtection(Ops(ChangingOps)) =
            <<Did("create_repo", input.req.REPO_NAME, <<>>, v.DEFAULT_BRANCH, 0)>>
            \o LabelCalls(v.LABELS)
            \o <<Did("create_hook", <<"https://cloudbuild.googleapis.com/github/webhook">>, <<>>, <<>>, 0)>>
            \o TeamCalls(v.TEAM_SLUGS)
            \o <<Did("edit_protection", v.DEFAULT_BRANCH, <<>>, <<>>, 1)>>

C4_Witness ==
    /\ flow = "web"
    /\ status = "done"
    /\ v.category = "normal"
    /\ "add_cloudbuild" \in flags
    /\ Len(v.LABELS) = 2
    /\ v.LABELS[1] # v.LABELS[2]
    /\ v.TEAM_SLUGS = <<<<"a">>>>
    /\ NoThrow

\* ------------------------------------------------------------------------ C5
CreatedHere == \E k \in 1..Len(calls) : calls[k].op = "create_repo" /\ calls[k].ok

C5_State ==
    (repo.exists /\ repo.protection.set) =>
        /\ repo.protection.require_code_owner_reviews
        /\ repo.protection.enforce_admins
        /\ repo.protection.count \in {1, 2}
        /\ (CreatedHere /\ Reached("protect") /\ ~Reached("protect2")) => repo.protection.count = 1
        /\ (CreatedHere /\ Reached("protect2")) => repo.protection.count = 2
        /\ (flow = "web") => repo.protection.count = 1

C5_Step ==
    (repo.exists /\ repo.protection.set) =>
        /\ repo'.exists /\ repo'.protection.set
        /\ repo'.protection.count >= repo.protection.count

\* C5: once the default branch is protected, the protection requires code-owner
\* review and admin enforcement; the review count is 1 after the early step (the end
\* of the web flow), 2 after the script's advanced step, never anything else, and
\* it never goes down.
C5_Protection == [](C5_State) /\ [][C5_Step]_vars

C5_Witness ==
    /\ flow = "script"
    /\ CreatedHere
    /\ Reached("protect2")
    /\ repo.protection.count = 2

\* ------------------------------------------------------------------------ C6
FileCalls(p) == SelectSeq(calls, LAMBDA c : c.op = "create_file" /\ c.a = FilePath(p))

\* C6: in the script, once a file's section is through, there is exactly one
\* create_file call for its path, with content that is not empty and on the default
\* branch, if its flag is on, and none if its flag is off; before the section there
\* is none.
C6_FilePerFlag ==
    flow = "script" =>
        \A p \in FileSteps :
            IF Reached(p) /\ FileFlag(p) \in flags
            THEN /\ Len(FileCalls(p)) = 1
                 /\ FileCalls(p)[1].b # <<>>
                 /\ FileCalls(p)[1].c = v.DEFAULT_BRANCH
            ELSE IF Reached(p) \/ pc \in {"read", "label_prompt", "read_flags", "auth", "create"}
                 THEN Len(FileCalls(p)) = 0
                 ELSE Len(FileCalls(p)) <= 1

C6_Witness ==
    /\ flow = "script"
    /\ status = "done"
    /\ "add_codeowners_file" \in flags
    /\ input.req.codeowners = <<>>
    /\ "add_tekton" \in flags

\* ------------------------------------------------------------------------ C7
LabelItems ==
    IF flow = "script" THEN input.req.labels ELSE Split(input.req.labels, ",")

Colons(item) == Cardinality({k \in 1..Len(item) : item[k] = ":"})

\* the entries the items of the form name:color stand for, in order
RECURSIVE ExpectedLabels(_)
ExpectedLabels(items) ==
    IF items = <<>> THEN <<>>
    ELSE LET item == Head(items)
             k == IndexOf(item, ":", 1) IN
         IF Colons(item) = 1
         THEN <<[name |-> Strip(SubSeq(item, 1, k - 1)),
                 color |-> Strip(SubSeq(item, k + 1, Len(item)))]>>
              \o ExpectedLabels(Tail(items))
         ELSE ExpectedLabels(Tail(items))

\* C7: in both flows every item name:color gives one stripped entry, and an item
\* without a colon or with more than one gives none, does not end the run, and
\* leaves the remaining items parsed.
C7_LabelParsing ==
    /\ status # "crashed"
    /\ pc \notin {"read", "label_prompt", "form"} => v.LABELS = ExpectedLabels(LabelItems)

\* ------------------------------------------------------------------------ C8
SecretOps == {"create_secret", "add_secret_version", "create_or_update_secret"}

Last(cs) == cs[Len(cs)]

\* C8 as stated: when a call of steps 1..7 raises, it was not tried before, the run
\* holds no call of a later step, and no audit line was written in that run.
C8_AbortStopsAll ==
    (status = "aborted" /\ SpecStep(Last(calls)) \in 1..7) =>
        /\ \A k \in 1..(Len(calls) - 1) : calls[k].ok
        /\ \A k \in 1..Len(calls) : SpecStep(calls[k]) <= SpecStep(Last(calls))
        /\ Ops({"audit_write"}) = <<>>

\* nothing the platform held before the step is gone after it
Kept(old, new) ==
    /\ new.exists = old.exists
    /\ old.exists =>
        /\ new.topics = old.topics
        /\ new.labels = old.labels
        /\ new.hooks = old.hooks
        /\ new.files = old.files
        /\ new.protection = old.protection
        /\ old.collaborators \subseteq new.collaborators
        /\ \A t \in old.teams : \E u \in new.teams : u[1] = t[1]

C8_State ==
    /\ \A k \in 1..Len(calls) :
          (~calls[k].ok /\ calls[k].op \notin SecretOps) => (k = Len(calls) /\ status = "aborted")
    /\ (status = "aborted" /\ CodeStep(Last(calls)) \in 1..7) =>
          Ops({"post", "audit_write"} \cup SecretOps) = <<>>

C8_Step ==
    /\ (status = "running" /\ status' = "aborted") => (Kept(repo, repo') /\ auditLog' = auditLog)
    /\ status = "aborted" => (repo' = repo /\ auditLog' = auditLog /\ calls' = <<>>)

\* C8 amended: when a call of steps 1..7 raises, it is not retried, no call at all
\* is attempted after it in that run, and what the platform already holds stays;
\* no notification or audit line exists in that run when the failing call stands
\* before the notification section, while a failing advanced branch protection or
\* Tekton commit comes after the notification and the audit line.
C8_NothingAfterFailure == [](C8_State) /\ [][C8_Step]_vars

C8_Witness ==
    /\ status = "aborted"
    /\ pc = "protect2"
    /\ ~Last(calls).ok
    /\ Ops({"audit_write"}) # <<>>
    /\ repo.protection.count = 1

\* ------------------------------------------------------------------------ C9
\* C9: in the script an error of a secret store or of the notification post does not
\* end the run.
C9_OptionalErrorsTolerated ==
    (flow = "script" /\ \E k \in 1..Len(calls) :
                           ~calls[k].ok /\ calls[k].op \in SecretOps \cup {"post"})
        => status # "aborted"

\* ----------------------------------------------------------------------- C10
PreExisting == repo.exists /\ ~CreatedHere

C10_State ==
    PreExisting =>
        /\ pc \in {"read", "label_prompt", "read_flags", "form", "auth", "create"}
        /\ status # "done"
        /\ (pc = "create" /\ status # "running") =>
              (status = "aborted" /\ Last(calls).op = "create_repo" /\ ~Last(calls).ok)

C10_Step == PreExisting => (repo' = repo /\ auditLog' = auditLog)

\* C10: a run for a repository the platform already holds goes no further than
\* repository creation, fails there, changes nothing of the repository and appends
\* no audit line.
C10_ExistingRepoUntouched == [](C10_State) /\ [][C10_Step]_vars

C10_Witness ==
    /\ PreExisting
    /\ status = "aborted"
    /\ pc = "create"
    /\ repo.protection.count = 2
    /\ auditLog # <<>>
====
